---- MODULE Spec2Model ----
(***************************************************************************)
(* Order-book normalisation and execution simulation of the real-time     *)
(* orderbook viewer (OKX / Bybit / Deribit).                               *)
(*                                                                         *)
(* JavaScript numbers are modelled as exact rationals n/d (d > 0, reduced) *)
(* together with NaN (0/0), +Infinity (1/0) and -Infinity (-1/0).          *)
(* Binary rounding and the sign of zero are not modelled.                  *)
(* Strings that are parsed as numbers are sequences of one-character       *)
(* strings, so that parseFloat is computed character by character.         *)
(***************************************************************************)
EXTENDS Integers, Sequences, FiniteSets, TLC

VARIABLES orderbooks, lastUpdated, orderForm, orderMetrics, lastRan, lastFunc, now,
          selectedExchange, depthChartData,
          connectionStatus, sockets, mounted, feedSeq

vars == <<orderbooks, lastUpdated, orderForm, orderMetrics, lastRan, lastFunc, now,
          selectedExchange, depthChartData,
          connectionStatus, sockets, mounted, feedSeq>>

\* the connections: the status shown per venue, the sockets and whether the
\* page is mounted
link == <<connectionStatus, sockets, mounted>>

(***************************************************************************)
(* JavaScript numbers                                                      *)
(***************************************************************************)
NaN == [n |-> 0, d |-> 0]

Infinity == [n |-> 1, d |-> 0]

NegInfinity == [n |-> -1, d |-> 0]

AbsInt(i) == IF i < 0 THEN -i ELSE i

SignInt(i) == IF i < 0 THEN -1 ELSE IF i > 0 THEN 1 ELSE 0

RECURSIVE GCD(_, _)
GCD(a, b) == IF b = 0 THEN a ELSE GCD(b, a % b)

\* the number n/d; d = 0 gives NaN or an infinity as IEEE division does
Rat(n, d) ==
  IF d = 0 THEN [n |-> SignInt(n), d |-> 0]
  ELSE LET g == GCD(AbsInt(n), AbsInt(d))
       IN [n |-> (SignInt(d) * n) \div g, d |-> AbsInt(d) \div g]

Num(i) == [n |-> i, d |-> 1]

IsNaN(x) == x.d = 0 /\ x.n = 0

IsFinite(x) == x.d # 0

\* x + y
Add(x, y) ==
  IF IsNaN(x) \/ IsNaN(y) THEN NaN
  ELSE IF ~IsFinite(x) /\ ~IsFinite(y) THEN (IF x.n = y.n THEN x ELSE NaN)
  ELSE IF ~IsFinite(x) THEN x
  ELSE IF ~IsFinite(y) THEN y
  ELSE Rat(x.n * y.d + y.n * x.d, x.d * y.d)

Neg(x) == [n |-> -x.n, d |-> x.d]

\* x - y
Sub(x, y) == Add(x, Neg(y))

\* x * y
Mul(x, y) ==
  IF IsNaN(x) \/ IsNaN(y) THEN NaN
  ELSE IF ~IsFinite(x) \/ ~IsFinite(y)
       THEN [n |-> SignInt(x.n) * SignInt(y.n), d |-> 0]
  ELSE Rat(x.n * y.n, x.d * y.d)

\* x / y
Div(x, y) ==
  IF IsNaN(x) \/ IsNaN(y) THEN NaN
  ELSE IF ~IsFinite(x) /\ ~IsFinite(y) THEN NaN
  ELSE IF ~IsFinite(x) THEN [n |-> x.n * (IF y.n < 0 THEN -1 ELSE 1), d |-> 0]
  ELSE IF ~IsFinite(y) THEN Num(0)
  ELSE Rat(x.n * y.d, x.d * y.n)

\* x < y; every comparison with NaN is false
Lt(x, y) ==
  IF IsNaN(x) \/ IsNaN(y) THEN FALSE
  ELSE IF ~IsFinite(x) THEN x.n < 0 /\ y # x
  ELSE IF ~IsFinite(y) THEN y.n > 0
  ELSE x.n * y.d < y.n * x.d

\* x <= y
Le(x, y) == ~IsNaN(x) /\ ~IsNaN(y) /\ (x = y \/ Lt(x, y))

\* x > y
Gt(x, y) == Lt(y, x)

\* x >= y
Ge(x, y) == Le(y, x)

\* Math.min(x, y)
MathMin(x, y) ==
  IF IsNaN(x) \/ IsNaN(y) THEN NaN ELSE IF Lt(y, x) THEN y ELSE x

\* Math.abs(x)
MathAbs(x) == [n |-> AbsInt(x.n), d |-> x.d]

\* x || y on numbers: 0 and NaN are falsy
OrElse(x, y) == IF IsNaN(x) \/ x = Num(0) THEN y ELSE x

(***************************************************************************)
(* Strings and parseFloat                                                  *)
(***************************************************************************)
Digits == {"0", "1", "2", "3", "4", "5", "6", "7", "8", "9"}

DigitVal(c) ==
  CASE c = "0" -> 0 [] c = "1" -> 1 [] c = "2" -> 2 [] c = "3" -> 3
    [] c = "4" -> 4 [] c = "5" -> 5 [] c = "6" -> 6 [] c = "7" -> 7
    [] c = "8" -> 8 [] c = "9" -> 9

DigitChar(i) ==
  CASE i = 0 -> "0" [] i = 1 -> "1" [] i = 2 -> "2" [] i = 3 -> "3"
    [] i = 4 -> "4" [] i = 5 -> "5" [] i = 6 -> "6" [] i = 7 -> "7"
    [] i = 8 -> "8" [] i = 9 -> "9"

RECURSIVE Pow10(_)
Pow10(k) == IF k = 0 THEN 1 ELSE 10 * Pow10(k - 1)

\* s without its leading white space
RECURSIVE TrimStart(_)
TrimStart(s) == IF s # <<>> /\ Head(s) = " " THEN TrimStart(Tail(s)) ELSE s

\* the number of leading decimal digits of s
RECURSIVE LeadingDigits(_)
LeadingDigits(s) ==
  IF s # <<>> /\ Head(s) \in Digits THEN 1 + LeadingDigits(Tail(s)) ELSE 0

\* the value of a string of decimal digits (0 for the empty string)
RECURSIVE DigitsValue(_)
DigitsValue(s) ==
  IF s = <<>> THEN 0
  ELSE 10 * DigitsValue(SubSeq(s, 1, Len(s) - 1)) + DigitVal(s[Len(s)])

\* parseFloat(s) for a string s: leading white space is skipped, then the
\* longest prefix "[+-]digits[.digits]" is read and the rest is ignored; NaN
\* when that prefix holds no digit.  Exponents and the literal "Infinity"
\* are outside the alphabet of the strings of this model.
parseFloatStr(s) ==
  LET t == TrimStart(s)
      signed == t # <<>> /\ Head(t) \in {"-", "+"}
      sign == IF t # <<>> /\ Head(t) = "-" THEN -1 ELSE 1
      u == IF signed THEN Tail(t) ELSE t
      ni == LeadingDigits(u)
      rest == SubSeq(u, ni + 1, Len(u))
      hasDot == rest # <<>> /\ Head(rest) = "."
      nf == IF hasDot THEN LeadingDigits(Tail(rest)) ELSE 0
      ip == SubSeq(u, 1, ni)
      fp == IF hasDot THEN SubSeq(Tail(rest), 1, nf) ELSE <<>>
  IN IF ni = 0 /\ nf = 0 THEN NaN
     ELSE Rat(sign * (DigitsValue(ip) * Pow10(nf) + DigitsValue(fp)), Pow10(nf))

\* the decimal digits of a natural number
RECURSIVE NatToString(_)
NatToString(i) ==
  IF i < 10 THEN <<DigitChar(i)>>
  ELSE NatToString(i \div 10) \o <<DigitChar(i % 10)>>

\* the digits after the decimal point of num/den < 1, den a divisor of a
\* power of ten
RECURSIVE FracToString(_, _)
FracToString(num, den) ==
  IF num = 0 THEN <<>>
  ELSE <<DigitChar((10 * num) \div den)>> \o FracToString((10 * num) % den, den)

\* Number.prototype.toString for a finite number with a finite decimal
\* expansion (the numbers a JSON document of this model holds)
NumberToString(x) ==
  LET a == AbsInt(x.n)
      fr == FracToString(a % x.d, x.d)
  IN (IF x.n < 0 THEN <<"-">> ELSE <<>>) \o NatToString(a \div x.d)
       \o (IF fr = <<>> THEN <<>> ELSE <<".">> \o fr)

(***************************************************************************)
(* JSON scalars of a venue message: a string, a number or null             *)
(***************************************************************************)
JStr(s) == [t |-> "string", s |-> s, x |-> NaN]

JNum(x) == [t |-> "number", s |-> <<>>, x |-> x]

JNull == [t |-> "null", s |-> <<>>, x |-> NaN]

\* String(v), the conversion parseFloat applies to its argument
ToStringJS(v) ==
  CASE v.t = "string" -> v.s
    [] v.t = "number" -> NumberToString(v.x)
    [] v.t = "null" -> <<"n", "u", "l", "l">>

\* parseFloat(v)
parseFloat(v) == parseFloatStr(ToStringJS(v))

\* v.toString() raises a TypeError on null
ToStringThrows(v) == v.t = "null"

(***************************************************************************)
(* Types (types.tsx)                                                       *)
(***************************************************************************)
ExchangeKey == {"okx", "bybit", "deribit"}

undefined == [undefined |-> TRUE]

null == [null |-> TRUE]

DEFAULT_SYMBOLS ==
  [e \in ExchangeKey |->
     CASE e = "okx" -> "BTC-USDT"
       [] e = "bybit" -> "BTCUSDT"
       [] e = "deribit" -> "BTC-PERPETUAL"]

OrderLevel(price, size, total) == [price |-> price, size |-> size, total |-> total]

(***************************************************************************)
(* Book builder (utils: processOrderbookData and its helpers)              *)
(***************************************************************************)
\* raw.map(([price, size]) => ({price: parseFloat(price), size: parseFloat(size), total: 0}))
ParseLevels(raw) ==
  [i \in 1..Len(raw) |-> OrderLevel(parseFloat(raw[i][1]), parseFloat(raw[i][2]), Num(0))]

\* running totals that start from the total a level already has
RECURSIVE RunningTotals_OnOldTotal(_, _)
RunningTotals_OnOldTotal(levels, acc) ==
  IF levels = <<>> THEN <<>>
  ELSE LET t == Add(Add(acc, Head(levels).total), Head(levels).size)
       IN <<OrderLevel(Head(levels).price, Head(levels).size, t)>>
            \o RunningTotals_OnOldTotal(Tail(levels), Add(acc, Head(levels).size))

\* levels.map(l => { acc += l.size; return {...l, total: acc} })
RECURSIVE RunningTotals(_, _)
RunningTotals(levels, acc) ==
  IF levels = <<>> THEN <<>>
  ELSE LET t == Add(acc, Head(levels).size)
       IN <<OrderLevel(Head(levels).price, Head(levels).size, t)>>
            \o RunningTotals(Tail(levels), t)

\* calculateTotals with one accumulator for both sides
calculateTotals_SharedAccumulator(orderbook) ==
  LET bids == RunningTotals(orderbook.bids, Num(0))
      bidTotal == IF bids = <<>> THEN Num(0) ELSE bids[Len(bids)].total
  IN [bids |-> bids,
      asks |-> RunningTotals(orderbook.asks, bidTotal),
      timestamp |-> orderbook.timestamp]

\* calculateTotals that leaves the placeholder totals
calculateTotals_Placeholder(orderbook) == orderbook

calculateTotals(orderbook) ==
  [bids |-> RunningTotals(orderbook.bids, Num(0)),
   asks |-> RunningTotals(orderbook.asks, Num(0)),
   timestamp |-> orderbook.timestamp]

processOKXData(orderbook) ==
  calculateTotals([bids |-> ParseLevels(orderbook.bids),
                   asks |-> ParseLevels(orderbook.asks),
                   timestamp |-> orderbook.ts])

processBybitData(data) ==
  calculateTotals([bids |-> ParseLevels(data.b),
                   asks |-> ParseLevels(data.a),
                   timestamp |-> data.u])

\* price.toString() or size.toString() raises on some level
DeribitThrows(data) ==
  \E side \in {data.bids, data.asks} :
    \E i \in 1..Len(side) : ToStringThrows(side[i][1]) \/ ToStringThrows(side[i][2])

\* parseFloat(x.toString()) = parseFloat(x) whenever toString does not raise
processDeribitData(data) ==
  calculateTotals([bids |-> ParseLevels(data.bids),
                   asks |-> ParseLevels(data.asks),
                   timestamp |-> data.timestamp])

Has(r, f) == f \in DOMAIN r

\* the book built from a venue message, or null when the message has not
\* the venue's snapshot shape or processing it raised
processOrderbookData(exchange, data) ==
  CASE exchange = "okx" ->
         IF Has(data, "data") /\ Len(data.data) >= 1
            /\ Has(data.data[1], "bids") /\ Has(data.data[1], "asks")
         THEN processOKXData(data.data[1]) ELSE null
    [] exchange = "bybit" ->
         IF Has(data, "data") /\ Has(data.data, "b") /\ Has(data.data, "a")
         THEN processBybitData(data.data) ELSE null
    [] exchange = "deribit" ->
         IF Has(data, "params") /\ Has(data.params, "data")
            /\ Has(data.params.data, "bids") /\ Has(data.params.data, "asks")
         THEN (IF DeribitThrows(data.params.data) THEN null
               ELSE processDeribitData(data.params.data))
         ELSE null

(***************************************************************************)
(* Execution simulator (utils: calculateOrderMetrics)                      *)
(***************************************************************************)
\* one iteration of the market walk on a level that is reached
WalkStep(st, level) ==
  LET fillQty == MathMin(st.remainingQuantity, level.size)
  IN [remainingQuantity |-> Sub(st.remainingQuantity, fillQty),
      totalCost |-> Add(st.totalCost, Mul(fillQty, level.price)),
      weightedPriceSum |-> Add(st.weightedPriceSum, Mul(fillQty, level.price)),
      filledQuantity |-> Add(st.filledQuantity, fillQty)]

\* for (const level of levels) { if (remainingQuantity <= 0) break; ... }
RECURSIVE MarketWalk(_, _)
MarketWalk(levels, st) ==
  IF levels = <<>> \/ Le(st.remainingQuantity, Num(0)) THEN st
  ELSE MarketWalk(Tail(levels), WalkStep(st, Head(levels)))

WalkStart(quantity) ==
  [remainingQuantity |-> quantity, totalCost |-> Num(0),
   weightedPriceSum |-> Num(0), filledQuantity |-> Num(0)]

\* the crossing test with the comparisons of the two sides exchanged
Crosses_SideSwapped(levels, side, price) ==
  \E i \in 1..Len(levels) :
    IF side = "buy" THEN Ge(levels[i].price, price) ELSE Le(levels[i].price, price)

\* the crossing test without the price comparison
Crosses_AnyLevel(levels, side, price) == levels # <<>>

\* levels.findIndex(level => side === 'buy' ? level.price <= price : level.price >= price) !== -1
Crosses(levels, side, price) ==
  \E i \in 1..Len(levels) :
    IF side = "buy" THEN Le(levels[i].price, price) ELSE Ge(levels[i].price, price)

\* levels[0]?.price || 0
BestPrice(levels) == IF levels = <<>> THEN Num(0) ELSE OrElse(levels[1].price, Num(0))

\* the impact denominator taken from the last level (the depth of the side)
ImpactBase_WholeBook(levels) ==
  IF levels = <<>> THEN Num(1) ELSE OrElse(levels[Len(levels)].total, Num(1))

\* levels[0]?.total || 1
ImpactBase(levels) == IF levels = <<>> THEN Num(1) ELSE OrElse(levels[1].total, Num(1))

\* the estimated cost without the fallback
EstimatedCost_NoFallback(totalCost, price, quantity) == totalCost

\* totalCost || price * quantity
EstimatedCost(totalCost, price, quantity) == OrElse(totalCost, Mul(price, quantity))

\* the falsy operands of  !orderbook || !order.price || !order.quantity
RejectsOrder(orderbook, order) ==
  orderbook \in {undefined, null} \/ order.price = <<>> \/ order.quantity = <<>>

\* the side walked by an order of the other side
Levels_SameSide(orderbook, side) == IF side = "buy" THEN orderbook.bids ELSE orderbook.asks

\* side === 'buy' ? orderbook.asks : orderbook.bids
Levels(orderbook, side) == IF side = "buy" THEN orderbook.asks ELSE orderbook.bids

\* the averages computed whatever was filled
Fills_Always(w) == TRUE

\* if (filledQuantity > 0)
Fills(w) == Gt(w.filledQuantity, Num(0))

calculateOrderMetrics(orderbook, order) ==
  IF RejectsOrder(orderbook, order) THEN null
  ELSE
    LET price == parseFloatStr(order.price)
        quantity == parseFloatStr(order.quantity)
        side == order.side
        levels == Levels(orderbook, side)
        market == order.orderType = "market"
        w == IF market THEN MarketWalk(levels, WalkStart(quantity)) ELSE WalkStart(quantity)
        filled == market /\ Fills(w)
        crossed == ~market /\ Crosses(levels, side, price)
        averageFillPrice ==
          IF filled THEN Div(w.weightedPriceSum, w.filledQuantity)
          ELSE IF crossed THEN price ELSE Num(0)
        fillPercentage ==
          IF filled THEN Mul(Div(w.filledQuantity, quantity), Num(100))
          ELSE IF crossed THEN Num(100) ELSE Num(0)
        slippage ==
          IF filled
          THEN Mul(MathAbs(Div(Sub(averageFillPrice, BestPrice(levels)), BestPrice(levels))),
                   Num(100))
          ELSE Num(0)
        marketImpact ==
          IF filled THEN Mul(Div(w.filledQuantity, ImpactBase(levels)), Num(100))
          ELSE IF crossed THEN Mul(Div(quantity, ImpactBase(levels)), Num(100))
          ELSE Num(0)
    IN [fillPercentage |-> MathMin(fillPercentage, Num(100)),
        averageFillPrice |-> averageFillPrice,
        slippage |-> slippage,
        marketImpact |-> marketImpact,
        estimatedCost |-> EstimatedCost(w.totalCost, price, quantity)]

(***************************************************************************)
(* Depth projection (utils: generateDepthChartData)                        *)
(***************************************************************************)
DepthChartData(price, bidTotal, askTotal) ==
  [price |-> price, bidTotal |-> bidTotal, askTotal |-> askTotal]

\* bid => ({price: bid.price, bidTotal: bid.total, askTotal: 0})
BidPoint(bid) == DepthChartData(bid.price, bid.total, Num(0))

\* an ask point that carries its total on both sides
AskPoint_BothTotals(ask) == DepthChartData(ask.price, ask.total, ask.total)

\* ask => ({price: ask.price, bidTotal: 0, askTotal: ask.total})
AskPoint(ask) == DepthChartData(ask.price, Num(0), ask.total)

\* Array.prototype.reverse
RECURSIVE Reverse(_)
Reverse(s) == IF s = <<>> THEN <<>> ELSE Reverse(Tail(s)) \o <<Head(s)>>

\* the comparator (a, b) => a.price - b.price as sort reads it: NaN counts as 0
ComesAfter(a, b) == Gt(Sub(a.price, b.price), Num(0))

\* x is put behind the last point that does not compare greater than x
RECURSIVE InsertPoint(_, _)
InsertPoint(sorted, x) ==
  IF sorted # <<>> /\ ComesAfter(sorted[Len(sorted)], x)
  THEN InsertPoint(SubSeq(sorted, 1, Len(sorted) - 1), x) \o <<sorted[Len(sorted)]>>
  ELSE sorted \o <<x>>

\* Array.prototype.sort with that comparator: a stable sort, computed by
\* insertion from the left (for an inconsistent comparator, one with a NaN
\* difference, this is the order a run-based stable sort leaves)
RECURSIVE SortByPrice(_)
SortByPrice(points) ==
  IF points = <<>> THEN <<>>
  ELSE InsertPoint(SortByPrice(SubSeq(points, 1, Len(points) - 1)), points[Len(points)])

\* a projection that reverses the bids of the book itself
BookAfterDepthChart_ReversedInPlace(orderbook) ==
  [orderbook EXCEPT !.bids = Reverse(@)]

\* the book after generateDepthChartData(orderbook): map builds new arrays,
\* reverse and sort act on those
BookAfterDepthChart(orderbook) == orderbook

generateDepthChartData(orderbook) ==
  IF orderbook \in {undefined, null} THEN <<>>
  ELSE LET bidsData == [i \in 1..Len(orderbook.bids) |-> BidPoint(orderbook.bids[i])]
           asksData == [i \in 1..Len(orderbook.asks) |-> AskPoint(orderbook.asks[i])]
       IN SortByPrice(Reverse(bidsData) \o asksData)

(***************************************************************************)
(* Page state and handlers (page.tsx) with the throttle of utils           *)
(***************************************************************************)
\* throttle(..., 100) of throttledProcessData, in ms
UPDATE_THROTTLE == 100

\* a time that stands for "undefined" (Date.now() is never 0)
NoTime == 0

NoTimer == [pending |-> FALSE, exchange |-> "okx", data |-> undefined, due |-> NoTime]

\* the state of a page after its first render
FreshPage(books, updated, form, metrics, ran, timer, selected, chart) ==
  /\ books = [e \in ExchangeKey |-> undefined]
  /\ updated = [e \in ExchangeKey |-> NoTime]
  /\ form = [venue |-> "okx", symbol |-> "BTC-USDT", orderType |-> "limit",
             side |-> "buy", price |-> <<>>, quantity |-> <<>>,
             timing |-> "immediate"]
  /\ metrics = null
  /\ ran = NoTime
  /\ timer = NoTimer
  /\ selected = "okx"
  /\ chart = <<>>

PageInit ==
  FreshPage(orderbooks, lastUpdated, orderForm, orderMetrics, lastRan, lastFunc,
            selectedExchange, depthChartData)

\* the render of the page: the chart of the selected venue's book
\* (currentOrderbook ? generateDepthChartData(currentOrderbook) : []), and
\* the books after that call
RenderChart(books, exchange) ==
  IF books[exchange] \in {undefined, null} THEN <<>>
  ELSE generateDepthChartData(books[exchange])

RenderBooks(books, exchange) ==
  IF books[exchange] \in {undefined, null} THEN books
  ELSE [books EXCEPT ![exchange] = BookAfterDepthChart(@)]

\* the throttled function without the test of processed
ProcessData_StoresNull(exchange, data) ==
  LET processed == processOrderbookData(exchange, data)
      stored == [orderbooks EXCEPT ![exchange] = processed]
  IN /\ orderbooks' = RenderBooks(stored, selectedExchange)
     /\ lastUpdated' = [lastUpdated EXCEPT ![exchange] = now]
     /\ depthChartData' = RenderChart(stored, selectedExchange)

\* the throttled function with the new levels put in front of the old ones
ProcessData_MergesLevels(exchange, data) ==
  LET processed == processOrderbookData(exchange, data)
      old == orderbooks[exchange]
      merged == IF old = undefined THEN processed
                ELSE [processed EXCEPT !.bids = @ \o old.bids, !.asks = @ \o old.asks]
      stored == [orderbooks EXCEPT ![exchange] = merged]
  IN IF processed # null
     THEN /\ orderbooks' = RenderBooks(stored, selectedExchange)
          /\ lastUpdated' = [lastUpdated EXCEPT ![exchange] = now]
          /\ depthChartData' = RenderChart(stored, selectedExchange)
     ELSE UNCHANGED <<orderbooks, lastUpdated, depthChartData>>

\* the throttled function: processOrderbookData, then the two state updates
\* when it returned a book
ProcessData(exchange, data) ==
  LET processed == processOrderbookData(exchange, data)
      stored == [orderbooks EXCEPT ![exchange] = processed]
  IN IF processed # null
     THEN /\ orderbooks' = RenderBooks(stored, selectedExchange)
          /\ lastUpdated' = [lastUpdated EXCEPT ![exchange] = now]
          /\ depthChartData' = RenderChart(stored, selectedExchange)
     ELSE UNCHANGED <<orderbooks, lastUpdated, depthChartData>>

\* a wrapper without throttle: every message is run at once
OnMessage_Unthrottled(exchange, data) ==
  /\ ProcessData(exchange, data)
  /\ lastRan' = now
  /\ UNCHANGED lastFunc
  /\ UNCHANGED <<orderForm, orderMetrics, now, selectedExchange, link>>

\* a throttle that runs a message at once while a timer is pending, and
\* leaves that timer
OnMessage_LeavesOldTimer(exchange, data) ==
  /\ IF lastRan = NoTime \/ lastFunc.pending
     THEN /\ ProcessData(exchange, data)
          /\ lastRan' = now
          /\ UNCHANGED lastFunc
     ELSE /\ lastFunc' = [pending |-> TRUE, exchange |-> exchange, data |-> data,
                          due |-> now + (UPDATE_THROTTLE - (now - lastRan))]
          /\ UNCHANGED <<orderbooks, lastUpdated, lastRan, depthChartData>>
  /\ UNCHANGED <<orderForm, orderMetrics, now, selectedExchange, link>>

\* ws.onmessage of a venue: the parsed message goes through the throttle,
\* which runs it at once the first time and otherwise replaces the pending
\* timer by one for this message
OnMessage(exchange, data) ==
  /\ IF lastRan = NoTime
     THEN /\ ProcessData(exchange, data)
          /\ lastRan' = now
          /\ UNCHANGED lastFunc
     ELSE /\ lastFunc' = [pending |-> TRUE, exchange |-> exchange, data |-> data,
                          due |-> now + (UPDATE_THROTTLE - (now - lastRan))]
          /\ UNCHANGED <<orderbooks, lastUpdated, lastRan, depthChartData>>
  /\ UNCHANGED <<orderForm, orderMetrics, now, selectedExchange, link>>

\* the callback of the pending timer
TimerFires ==
  /\ lastFunc.pending
  /\ now >= lastFunc.due
  /\ IF now - lastRan >= UPDATE_THROTTLE
     THEN /\ ProcessData(lastFunc.exchange, lastFunc.data)
          /\ lastRan' = now
     ELSE UNCHANGED <<orderbooks, lastUpdated, lastRan, depthChartData>>
  /\ lastFunc' = NoTimer
  /\ UNCHANGED <<orderForm, orderMetrics, now, selectedExchange, link, feedSeq>>

handleOrderFormChange(field, value) ==
  /\ orderForm' = IF field = "venue"
                  THEN [orderForm EXCEPT !.venue = value, !.symbol = DEFAULT_SYMBOLS[value]]
                  ELSE [orderForm EXCEPT ![field] = value]
  /\ UNCHANGED <<orderbooks, lastUpdated, orderMetrics, lastRan, lastFunc, now,
                 selectedExchange, depthChartData, link, feedSeq>>

\* onClick of a venue button: the page renders the chart of that venue
setSelectedExchange(exchange) ==
  /\ selectedExchange' = exchange
  /\ depthChartData' = RenderChart(orderbooks, exchange)
  /\ orderbooks' = RenderBooks(orderbooks, exchange)
  /\ UNCHANGED <<lastUpdated, orderForm, orderMetrics, lastRan, lastFunc, now, link, feedSeq>>

\* simulateOrder on the book of the venue selected for display
simulateOrder_SelectedVenue ==
  /\ orderMetrics' = IF orderbooks[selectedExchange] \in {undefined, null} THEN orderMetrics
                     ELSE calculateOrderMetrics(orderbooks[selectedExchange], orderForm)
  /\ UNCHANGED <<orderbooks, lastUpdated, orderForm, lastRan, lastFunc, now,
                 selectedExchange, depthChartData, link, feedSeq>>

\* without a book for the form's venue: an alert, and nothing changes
simulateOrder ==
  /\ orderMetrics' = IF orderbooks[orderForm.venue] \in {undefined, null} THEN orderMetrics
                     ELSE calculateOrderMetrics(orderbooks[orderForm.venue], orderForm)
  /\ UNCHANGED <<orderbooks, lastUpdated, orderForm, lastRan, lastFunc, now,
                 selectedExchange, depthChartData, link, feedSeq>>

(***************************************************************************)
(* Connections (utils: connectToExchange; page.tsx: the mount effect)      *)
(***************************************************************************)
\* setTimeout(() => connectToExchange(...), 3000) of ws.onclose, in ms
RECONNECT_DELAY == 3000

\* a WebSocket of a venue: its readyState, whether wsRefs.current holds it,
\* whether its callbacks belong to the mounted page, and when the reconnect
\* timer of its onclose is due (NoTime: no timer)
Socket(readyState, ref, live, reconnectAt) ==
  [readyState |-> readyState, ref |-> ref, live |-> live, reconnectAt |-> reconnectAt]

\* new WebSocket(config.wsUrl)
NewSocket(ref, live) == Socket("CONNECTING", ref, live, NoTime)

\* the page after its sockets have opened: one socket per venue, held by
\* wsRefs, status 'connected', no message received yet
Connected ==
  /\ connectionStatus = [e \in ExchangeKey |-> "connected"]
  /\ sockets = [e \in ExchangeKey |-> <<Socket("OPEN", TRUE, TRUE, NoTime)>>]
  /\ mounted = TRUE
  /\ feedSeq = [e \in ExchangeKey |-> 0]

\* a status handler that sets the status of every venue
handleStatusChange_AllVenues(exchange, status) == [e \in ExchangeKey |-> status]

\* setConnectionStatus(prev => ({ ...prev, [exchange]: status }))
handleStatusChange(exchange, status) == [connectionStatus EXCEPT ![exchange] = status]

\* onStatusChange called by a socket: a state update of an unmounted page
\* is dropped
StatusAfter(socket, exchange, status) ==
  IF mounted /\ socket.live THEN handleStatusChange(exchange, status) ELSE connectionStatus

\* what no socket event touches
PageState ==
  <<orderbooks, lastUpdated, orderForm, orderMetrics, lastRan, lastFunc,
    selectedExchange, depthChartData, feedSeq>>

\* ws.onopen (the subscription is sent)
OnOpen(exchange, i) ==
  /\ i \in DOMAIN sockets[exchange]
  /\ sockets[exchange][i].readyState = "CONNECTING"
  /\ sockets' = [sockets EXCEPT ![exchange][i].readyState = "OPEN"]
  /\ connectionStatus' = StatusAfter(sockets[exchange][i], exchange, "connected")
  /\ UNCHANGED <<PageState, mounted, now>>

\* ws.onerror
OnError(exchange, i) ==
  /\ i \in DOMAIN sockets[exchange]
  /\ sockets[exchange][i].readyState \in {"CONNECTING", "OPEN"}
  /\ connectionStatus' = StatusAfter(sockets[exchange][i], exchange, "error")
  /\ UNCHANGED <<PageState, sockets, mounted, now>>

\* an onclose that starts no reconnect timer
OnClose_NoReconnect(exchange, i) ==
  /\ i \in DOMAIN sockets[exchange]
  /\ sockets[exchange][i].readyState \in {"CONNECTING", "OPEN", "CLOSING"}
  /\ sockets' = [sockets EXCEPT ![exchange][i].readyState = "CLOSED"]
  /\ connectionStatus' = StatusAfter(sockets[exchange][i], exchange, "disconnected")
  /\ UNCHANGED <<PageState, mounted, now>>

\* ws.onclose, of a socket the network or ws.close() closes: the status,
\* and the timer of the reconnect
OnClose(exchange, i) ==
  /\ i \in DOMAIN sockets[exchange]
  /\ sockets[exchange][i].readyState \in {"CONNECTING", "OPEN", "CLOSING"}
  /\ sockets' = [sockets EXCEPT ![exchange][i].readyState = "CLOSED",
                                ![exchange][i].reconnectAt = now + RECONNECT_DELAY]
  /\ connectionStatus' = StatusAfter(sockets[exchange][i], exchange, "disconnected")
  /\ UNCHANGED <<PageState, mounted, now>>

\* the timer of onclose fires: connectToExchange with the same callbacks;
\* the new socket takes the place of the closed one, wsRefs does not get it
Reconnect(exchange, i) ==
  /\ i \in DOMAIN sockets[exchange]
  /\ sockets[exchange][i].readyState = "CLOSED"
  /\ sockets[exchange][i].reconnectAt # NoTime
  /\ now >= sockets[exchange][i].reconnectAt
  /\ sockets' = [sockets EXCEPT ![exchange][i] = NewSocket(FALSE, sockets[exchange][i].live)]
  /\ connectionStatus' = StatusAfter(sockets[exchange][i], exchange, "connecting")
  /\ UNCHANGED <<PageState, mounted, now>>

\* the cleanup of the mount effect: ws?.close() on the sockets wsRefs holds;
\* the callbacks of every socket now belong to an unmounted page
Unmount ==
  /\ mounted
  /\ mounted' = FALSE
  /\ sockets' =
       [e \in ExchangeKey |->
          [i \in DOMAIN sockets[e] |->
             [sockets[e][i] EXCEPT
                !.live = FALSE,
                !.readyState = IF sockets[e][i].ref /\ @ \in {"CONNECTING", "OPEN"}
                               THEN "CLOSING" ELSE @]]]
  /\ UNCHANGED <<PageState, connectionStatus, now>>

\* the venue has a socket that delivers messages to the mounted page
Delivers(exchange) ==
  /\ mounted
  /\ \E i \in DOMAIN sockets[exchange] :
       sockets[exchange][i].readyState = "OPEN" /\ sockets[exchange][i].live

(***************************************************************************)
(* Bounded inputs                                                          *)
(***************************************************************************)
\* the longest side of a snapshot
MaxLevels == 2

\* the clock stops at MaxTime; it advances TickMs at a time
MaxTime == 150

TickMs == 50

T(s) == JStr(s)

\* raw [price, size] pairs as OKX and Bybit send them (strings)
StrLevels ==
  { <<T(<<"1", "0", "0">>), T(<<"1", "0">>)>>,
    <<T(<<"1", "0", "1">>), T(<<"1", "0">>)>>,
    <<T(<<"9", "9", ".", "5">>), T(<<"2", ".", "5">>)>>,
    <<T(<<"1", "0", "0">>), T(<<"0">>)>>,
    <<T(<<"0">>), T(<<"1", "0">>)>>,
    <<T(<<"a", "b", "c">>), T(<<"1", "0">>)>>,
    <<T(<<"1", "0", "0">>), T(<<>>)>>,
    <<T(<<"1", "0", "0">>), T(<<"-", "1">>)>> }

\* raw [price, size] pairs as Deribit sends them (numbers), a null and a string
NumLevels ==
  { <<JNum(Num(100)), JNum(Num(10))>>,
    <<JNum(Num(101)), JNum(Num(10))>>,
    <<JNum(Rat(199, 2)), JNum(Rat(5, 2))>>,
    <<JNum(Num(100)), JNum(Num(0))>>,
    <<JNum(Num(0)), JNum(Num(10))>>,
    <<JNum(Num(100)), JNum(Num(-1))>>,
    <<JNull, JNum(Num(10))>>,
    <<JNum(Num(100)), T(<<"a", "b", "c">>)>> }

\* the sequences over S of length at most n
SeqsUpTo(S, n) == UNION {[1..k -> S] : k \in 0..n}

RawLevels(exchange) == IF exchange = "deribit" THEN NumLevels ELSE StrLevels

\* one side of a snapshot, and a short side to go with it
RichSides(exchange) == SeqsUpTo(RawLevels(exchange), MaxLevels)

PoorSides(exchange) ==
  {<<>>} \cup {<<l>> : l \in {x \in RawLevels(exchange) :
                                parseFloat(x[1]) = Num(100) /\ parseFloat(x[2]) = Num(10)}}

\* [bids, asks] of the snapshots: one side rich, the other short
SidePairs(exchange) ==
  (RichSides(exchange) \X PoorSides(exchange)) \cup (PoorSides(exchange) \X RichSides(exchange))

Timestamp(exchange) == IF exchange = "deribit" THEN 1700000000 ELSE "1700000000"

LaterTimestamp(exchange) == IF exchange = "deribit" THEN 1700000001 ELSE "1700000001"

\* a venue snapshot in the venue's envelope
SnapshotAt(exchange, bids, asks, ts) ==
  CASE exchange = "okx" ->
         [data |-> <<[bids |-> bids, asks |-> asks, ts |-> ts]>>]
    [] exchange = "bybit" ->
         [data |-> [b |-> bids, a |-> asks, u |-> ts]]
    [] exchange = "deribit" ->
         [params |-> [data |-> [bids |-> bids, asks |-> asks, timestamp |-> ts]]]

Snapshot(exchange, bids, asks) == SnapshotAt(exchange, bids, asks, Timestamp(exchange))

\* messages that are no snapshot: a subscription ack, an empty data array, a
\* snapshot without asks
OtherMessages(exchange) ==
  CASE exchange = "okx" ->
         { [event |-> "subscribe"], [data |-> <<>>],
           [data |-> <<[bids |-> <<>>, ts |-> Timestamp(exchange)]>>] }
    [] exchange = "bybit" ->
         { [success |-> TRUE], [data |-> [b |-> <<>>, u |-> Timestamp(exchange)]] }
    [] exchange = "deribit" ->
         { [result |-> TRUE],
           [params |-> [data |-> [bids |-> <<>>, timestamp |-> Timestamp(exchange)]]] }

Snapshots(exchange) == {Snapshot(exchange, p[1], p[2]) : p \in SidePairs(exchange)}

Messages(exchange) == Snapshots(exchange) \cup OtherMessages(exchange)

\* what the user can type into the price and quantity fields
PriceInputs == { <<>>, <<"9", "9">>, <<"1", "0", "1">>, <<"x">> }

QuantityInputs == { <<>>, <<"0">>, <<"5">>, <<"1", "5">>, <<"-", "1">>, <<"x">> }

(***************************************************************************)
(* SpecBuild: the first message after mount, for every venue and message   *)
(***************************************************************************)
InitBuild == PageInit /\ Connected /\ now = TickMs

NextBuild ==
  \E exchange \in ExchangeKey : \E data \in Messages(exchange) :
    /\ lastRan = NoTime
    /\ Delivers(exchange)
    /\ OnMessage(exchange, data)
    /\ UNCHANGED feedSeq

SpecBuild == InitBuild /\ [][NextBuild]_vars

(***************************************************************************)
(* SpecMetrics: simulateOrder on every stored book and order form, with     *)
(* the price field retyped between simulations                             *)
(***************************************************************************)
Books ==
  {undefined} \cup {processOrderbookData("okx", m) : m \in Snapshots("okx")}

Forms ==
  [venue : {"okx"}, symbol : {"BTC-USDT"}, orderType : {"market", "limit"},
   side : {"buy", "sell"}, price : PriceInputs, quantity : QuantityInputs,
   timing : {"immediate"}]

InitMetrics ==
  /\ orderbooks \in {[e \in ExchangeKey |-> IF e = "okx" THEN b ELSE undefined] : b \in Books}
  /\ lastUpdated = [e \in ExchangeKey |-> IF orderbooks[e] = undefined THEN NoTime ELSE TickMs]
  /\ orderForm \in Forms
  /\ orderMetrics = null
  /\ lastRan = (IF orderbooks["okx"] = undefined THEN NoTime ELSE TickMs)
  /\ lastFunc = NoTimer
  /\ now = TickMs
  /\ selectedExchange = "okx"
  /\ depthChartData = RenderChart(orderbooks, selectedExchange)
  /\ Connected

\* the user retypes the price between two simulations
EditPrice == \E value \in PriceInputs : handleOrderFormChange("price", value)

NextMetrics == simulateOrder \/ EditPrice

SpecMetrics == InitMetrics /\ [][NextMetrics]_vars

(***************************************************************************)
(* Spec: the page, fed by the three venues, with the user's edits          *)
(***************************************************************************)
Level100 == <<T(<<"1", "0", "0">>), T(<<"1", "0">>)>>

Level101 == <<T(<<"1", "0", "1">>), T(<<"1", "0">>)>>

\* per venue: an ordered snapshot, a later snapshot with its asks out of
\* order, and the messages that are no snapshot
FeedSnapshots(exchange) ==
  { Snapshot(exchange, <<Level100>>, <<Level101>>),
    SnapshotAt(exchange, <<>>, <<Level101, Level100>>, LaterTimestamp(exchange)) }

FeedMessages(exchange) ==
  FeedSnapshots(exchange)
  \cup {m \in OtherMessages(exchange) : ~Has(m, "data") /\ ~Has(m, "params")}

FieldValues(field) ==
  CASE field = "venue" -> ExchangeKey
    [] field = "orderType" -> {"market", "limit"}
    [] field = "side" -> {"buy", "sell"}
    [] field = "price" -> { <<>>, <<"1", "0", "1">> }
    [] field = "quantity" -> { <<>>, <<"1", "5">> }

FormFields == {"venue", "orderType", "side", "price", "quantity"}

Init == PageInit /\ Connected /\ now = TickMs

\* time passes
Tick ==
  /\ now + TickMs <= MaxTime
  /\ now' = now + TickMs
  /\ UNCHANGED <<orderbooks, lastUpdated, orderForm, orderMetrics, lastRan, lastFunc,
                 selectedExchange, depthChartData, link, feedSeq>>

Receive ==
  \E exchange \in ExchangeKey : \E data \in FeedMessages(exchange) :
    Delivers(exchange) /\ OnMessage(exchange, data) /\ UNCHANGED feedSeq

Edit == \E field \in FormFields : \E value \in FieldValues(field) : handleOrderFormChange(field, value)

Select == \E exchange \in ExchangeKey : setSelectedExchange(exchange)

Next == Receive \/ TimerFires \/ Tick \/ Edit \/ simulateOrder \/ Select

Spec == Init /\ [][Next]_vars

(***************************************************************************)
(* SpecFeed: the feed alone, with every message that is no snapshot, and   *)
(* the venue buttons                                                       *)
(***************************************************************************)
AllFeedMessages(exchange) == FeedSnapshots(exchange) \cup OtherMessages(exchange)

ReceiveAny ==
  \E exchange \in ExchangeKey : \E data \in AllFeedMessages(exchange) :
    Delivers(exchange) /\ OnMessage(exchange, data) /\ UNCHANGED feedSeq

NextFeed == ReceiveAny \/ TimerFires \/ Tick \/ Select

SpecFeed == Init /\ [][NextFeed]_vars

(***************************************************************************)
(* SpecOrder: every venue sends numbered snapshots, the number in the      *)
(* timestamp field                                                         *)
(***************************************************************************)
\* the snapshots a venue sends
MaxSeq == 3

OrderedSnapshot(exchange, k) == SnapshotAt(exchange, <<Level100>>, <<Level101>>, k)

ReceiveOrdered ==
  \E exchange \in ExchangeKey :
    /\ feedSeq[exchange] < MaxSeq
    /\ Delivers(exchange)
    /\ feedSeq' = [feedSeq EXCEPT ![exchange] = @ + 1]
    /\ OnMessage(exchange, OrderedSnapshot(exchange, feedSeq[exchange] + 1))

NextOrder == ReceiveOrdered \/ TimerFires \/ Tick

SpecOrder == Init /\ [][NextOrder]_vars

(***************************************************************************)
(* SpecConn: the sockets of the page, with unmount and remount              *)
(***************************************************************************)
\* the connection chains a venue can have (one per mount of the page)
MaxSockets == 2

\* the clock of SpecConn stops at MaxConnTime
MaxConnTime == 3050

\* the page after the mount effect: a fresh page state, one connecting
\* socket per venue in wsRefs, status 'connecting'
MountEffect(old, opened, status, isMounted) ==
  /\ opened = [e \in ExchangeKey |->
                 [i \in 1..Len(old[e]) |-> [old[e][i] EXCEPT !.ref = FALSE]]
                   \o <<NewSocket(TRUE, TRUE)>>]
  /\ status = [e \in ExchangeKey |-> "connecting"]
  /\ isMounted = TRUE

\* the page is mounted again: a new instance of the component
Mount ==
  /\ ~mounted
  /\ \A e \in ExchangeKey : Len(sockets[e]) < MaxSockets
  /\ FreshPage(orderbooks', lastUpdated', orderForm', orderMetrics', lastRan', lastFunc',
               selectedExchange', depthChartData')
  /\ MountEffect(sockets, sockets', connectionStatus', mounted')
  /\ UNCHANGED <<feedSeq, now>>

\* RECONNECT_DELAY ms pass
Wait ==
  /\ now + RECONNECT_DELAY <= MaxConnTime
  /\ now' = now + RECONNECT_DELAY
  /\ UNCHANGED <<PageState, link>>

\* a socket closes early enough for its reconnect timer to fire before the
\* clock stops
Closes(exchange, i) == now + RECONNECT_DELAY <= MaxConnTime /\ OnClose(exchange, i)

SocketIds == 1..MaxSockets

InitConn ==
  /\ PageInit
  /\ MountEffect([e \in ExchangeKey |-> <<>>], sockets, connectionStatus, mounted)
  /\ feedSeq = [e \in ExchangeKey |-> 0]
  /\ now = TickMs

NextConn ==
  \/ \E e \in ExchangeKey : \E i \in SocketIds : OnOpen(e, i)
  \/ \E e \in ExchangeKey : \E i \in SocketIds : OnError(e, i)
  \/ \E e \in ExchangeKey : \E i \in SocketIds : Closes(e, i)
  \/ \E e \in ExchangeKey : \E i \in SocketIds : Reconnect(e, i)
  \/ Unmount
  \/ Mount
  \/ Wait

SpecConn == InitConn /\ [][NextConn]_vars

(***************************************************************************)
(* SpecLink: the sockets of a page that stays mounted, from the moment     *)
(* they are open; the first message of a venue stores its book.            *)
(* SpecLinkFair: time passes and a due timer fires.                        *)
(***************************************************************************)
ReceiveFirst ==
  \E exchange \in ExchangeKey :
    /\ lastRan = NoTime
    /\ Delivers(exchange)
    /\ OnMessage(exchange, Snapshot(exchange, <<Level100>>, <<Level101>>))
    /\ UNCHANGED feedSeq

NextLink ==
  \/ ReceiveFirst
  \/ \E e \in ExchangeKey : \E i \in SocketIds : OnOpen(e, i)
  \/ \E e \in ExchangeKey : \E i \in SocketIds : OnError(e, i)
  \/ \E e \in ExchangeKey : \E i \in SocketIds : Closes(e, i)
  \/ \E e \in ExchangeKey : \E i \in SocketIds : Reconnect(e, i)
  \/ Wait

SpecLink == Init /\ [][NextLink]_vars

SpecLinkFair ==
  /\ SpecLink
  /\ WF_vars(Wait)
  /\ \A e \in ExchangeKey : \A i \in SocketIds : WF_vars(Reconnect(e, i))

(***************************************************************************)
(* SpecChart: the chart and the simulation of every stored book; the page  *)
(* shows another venue at first, then the venue buttons are clicked        *)
(***************************************************************************)
ChartForms ==
  [venue : {"okx"}, symbol : {"BTC-USDT"}, orderType : {"market", "limit"},
   side : {"buy", "sell"}, price : {<<"1", "0", "1">>}, quantity : {<<"5">>},
   timing : {"immediate"}]

InitChart ==
  /\ orderbooks \in {[e \in ExchangeKey |-> IF e = "okx" THEN b ELSE undefined] : b \in Books}
  /\ lastUpdated = [e \in ExchangeKey |-> IF orderbooks[e] = undefined THEN NoTime ELSE TickMs]
  /\ orderForm \in ChartForms
  /\ orderMetrics = null
  /\ lastRan = (IF orderbooks["okx"] = undefined THEN NoTime ELSE TickMs)
  /\ lastFunc = NoTimer
  /\ now = TickMs
  /\ selectedExchange = "bybit"
  /\ depthChartData = RenderChart(orderbooks, selectedExchange)
  /\ Connected

NextChart == Select \/ simulateOrder

SpecChart == InitChart /\ [][NextChart]_vars

(***************************************************************************)
(* Vocabulary of the properties                                            *)
(***************************************************************************)
\* the book simulateOrder reads, and the side the order walks
Book == orderbooks[orderForm.venue]

Walked == IF orderForm.side = "buy" THEN Book.asks ELSE Book.bids

Quantity == parseFloatStr(orderForm.quantity)

LimitPrice == parseFloatStr(orderForm.price)

IsMarket == orderForm.orderType = "market"

IsLimit == orderForm.orderType = "limit"

\* a step of simulateOrder on a stored book: of the handlers, only
\* simulateOrder changes orderMetrics and nothing else
SimulateStep ==
  /\ Book # undefined
  /\ UNCHANGED <<orderbooks, lastUpdated, orderForm, lastRan, lastFunc, now,
                 selectedExchange, depthChartData, link, feedSeq>>

Positive(x) == IsFinite(x) /\ Gt(x, Num(0))

NonNegative(x) == IsFinite(x) /\ Ge(x, Num(0))

\* size[1] + ... + size[i]
RECURSIVE SumSizes(_, _)
SumSizes(levels, i) ==
  IF i = 0 THEN Num(0) ELSE Add(SumSizes(levels, i - 1), levels[i].size)

\* what level i gives to an order of quantity q on a side of positive sizes
Take(levels, i, q) ==
  LET before == SumSizes(levels, i - 1)
  IN IF Ge(before, q) THEN Num(0) ELSE MathMin(Sub(q, before), levels[i].size)

\* the sum over levels 1..i of take * price
RECURSIVE TakeCost(_, _, _)
TakeCost(levels, i, q) ==
  IF i = 0 THEN Num(0)
  ELSE Add(TakeCost(levels, i - 1, q), Mul(Take(levels, i, q), levels[i].price))

WellFormed(levels) ==
  \A i \in 1..Len(levels) : Positive(levels[i].price) /\ Positive(levels[i].size)

StrictlyDescending(levels) ==
  \A i \in 1..(Len(levels) - 1) : Gt(levels[i].price, levels[i + 1].price)

StrictlyAscending(levels) ==
  \A i \in 1..(Len(levels) - 1) : Lt(levels[i].price, levels[i + 1].price)

(***************************************************************************)
(* C1. A market order of quantity q > 0 against a non-empty side (here: of *)
(* levels with positive finite price and size) yields a result with        *)
(* filled = min(q, sum of the sizes), estimatedCost = sum of take * price, *)
(* averageFillPrice = cost / filled, fillPercentage = min(100,             *)
(* filled / q * 100).                                                      *)
(***************************************************************************)
C1_MarketWalkResult ==
  [][(SimulateStep /\ IsMarket /\ Positive(Quantity) /\ Walked # <<>> /\ WellFormed(Walked))
       => /\ orderMetrics' # null
          /\ LET filled == MathMin(Quantity, SumSizes(Walked, Len(Walked)))
                 cost == TakeCost(Walked, Len(Walked), Quantity)
             IN /\ orderMetrics'.estimatedCost = cost
                /\ orderMetrics'.averageFillPrice = Div(cost, filled)
                /\ orderMetrics'.fillPercentage =
                     MathMin(Num(100), Mul(Div(filled, Quantity), Num(100)))]_vars

\* the same with the price field filled in: the walk itself is as C1 says
C1_MarketWalkWithPrice ==
  [][(SimulateStep /\ IsMarket /\ Positive(Quantity) /\ Walked # <<>> /\ WellFormed(Walked)
        /\ orderForm.price # <<>>)
       => /\ orderMetrics' # null
          /\ LET filled == MathMin(Quantity, SumSizes(Walked, Len(Walked)))
                 cost == TakeCost(Walked, Len(Walked), Quantity)
             IN /\ orderMetrics'.estimatedCost = cost
                /\ orderMetrics'.averageFillPrice = Div(cost, filled)
                /\ orderMetrics'.fillPercentage =
                     MathMin(Num(100), Mul(Div(filled, Quantity), Num(100)))]_vars

(***************************************************************************)
(* C2. Every stored book has its bids strictly descending and its asks     *)
(* strictly ascending by price (the code has no state in which an ordering *)
(* violation is flagged, so a stored book is an accepted one).             *)
(***************************************************************************)
C2_StoredBooksOrdered ==
  \A e \in ExchangeKey :
    orderbooks[e] # undefined =>
      StrictlyDescending(orderbooks[e].bids) /\ StrictlyAscending(orderbooks[e].asks)

(***************************************************************************)
(* C3. In every stored book, on each side the total of level i is the sum  *)
(* of the sizes of levels 1..i; when the sizes are non-negative the totals *)
(* are non-decreasing and the last total is the sum of all sizes.          *)
(***************************************************************************)
TotalsArePrefixSums(levels) ==
  /\ \A i \in 1..Len(levels) : levels[i].total = SumSizes(levels, i)
  /\ (\A i \in 1..Len(levels) : NonNegative(levels[i].size))
       => /\ \A i \in 1..(Len(levels) - 1) : Le(levels[i].total, levels[i + 1].total)
          /\ levels # <<>> => levels[Len(levels)].total = SumSizes(levels, Len(levels))

C3_TotalsArePrefixSums ==
  \A e \in ExchangeKey :
    orderbooks[e] # undefined =>
      TotalsArePrefixSums(orderbooks[e].bids) /\ TotalsArePrefixSums(orderbooks[e].asks)

C3_Witness_TwoLevelTotals ==
  \E e \in ExchangeKey :
    /\ orderbooks[e] # undefined
    /\ Len(orderbooks[e].bids) = 1
    /\ Len(orderbooks[e].asks) = 2
    /\ Positive(orderbooks[e].asks[1].size)
    /\ Positive(orderbooks[e].asks[2].size)
    /\ orderbooks[e].asks[2].total =
         Add(orderbooks[e].asks[1].size, orderbooks[e].asks[2].size)

(***************************************************************************)
(* C4. simulateOrder yields no result (null) whenever the walked side has  *)
(* no level, for market and limit orders alike (stated for requests that   *)
(* are valid otherwise: price and quantity positive numbers).              *)
(***************************************************************************)
C4_EmptySideNoResult ==
  [][(SimulateStep /\ Walked = <<>> /\ Positive(Quantity) /\ Positive(LimitPrice))
       => orderMetrics' = null]_vars

(***************************************************************************)
(* C5. simulateOrder yields no result (null) for every invalid request:    *)
(* quantity missing, non-numeric, zero or negative, or, for a limit order, *)
(* price missing or non-numeric (stated for a non-empty walked side of     *)
(* levels with positive finite price and size).                            *)
(***************************************************************************)
InvalidRequest ==
  \/ orderForm.quantity = <<>>
  \/ IsNaN(Quantity)
  \/ Le(Quantity, Num(0))
  \/ IsLimit /\ (orderForm.price = <<>> \/ IsNaN(LimitPrice))

C5_InvalidRequestNoResult ==
  [][(SimulateStep /\ InvalidRequest /\ Walked # <<>> /\ WellFormed(Walked))
       => orderMetrics' = null]_vars

(***************************************************************************)
(* C6. A market order with a positive numeric quantity against a non-empty *)
(* walked side (of levels with positive finite price and size) yields a    *)
(* result also when the price field is empty.                              *)
(***************************************************************************)
C6_MarketNeedsNoPrice ==
  [][(SimulateStep /\ IsMarket /\ Positive(Quantity) /\ Walked # <<>> /\ WellFormed(Walked)
        /\ orderForm.price = <<>>)
       => orderMetrics' # null]_vars

(***************************************************************************)
(* C7. Every result of a limit order that some level of the walked side    *)
(* crosses (buy: level.price <= limit price; sell: level.price >= limit    *)
(* price) has fillPercentage = 100, averageFillPrice = limit price,        *)
(* slippage = 0 and marketImpact = quantity / levels[0].total * 100 (with  *)
(* the denominator 1 where levels[0].total is 0 or no number), whatever    *)
(* the quantity is relative to the sizes on the side.                      *)
(***************************************************************************)
SomeLevelCrosses ==
  \E i \in 1..Len(Walked) :
    /\ ~IsNaN(Walked[i].price) /\ ~IsNaN(LimitPrice)
    /\ IF orderForm.side = "buy"
       THEN ~Lt(LimitPrice, Walked[i].price)
       ELSE ~Lt(Walked[i].price, LimitPrice)

\* levels[0].total, or 1 where that is 0 or no number
FirstTotalOrOne ==
  IF IsNaN(Walked[1].total) \/ Walked[1].total = Num(0) THEN Num(1) ELSE Walked[1].total

C7_CrossingLimitFullyFilled ==
  [][(SimulateStep /\ IsLimit /\ SomeLevelCrosses /\ orderMetrics' # null)
       => /\ orderMetrics'.fillPercentage = Num(100)
          /\ orderMetrics'.averageFillPrice = LimitPrice
          /\ orderMetrics'.slippage = Num(0)
          /\ orderMetrics'.marketImpact =
               Mul(Div(Quantity, FirstTotalOrOne), Num(100))]_vars

\* a crossing limit order for more than the whole side holds, fully filled
C7_Witness_OversizedLimitFilled ==
  /\ Book # undefined /\ IsLimit /\ SomeLevelCrosses
  /\ WellFormed(Walked)
  /\ Gt(Quantity, SumSizes(Walked, Len(Walked)))
  /\ orderMetrics # null
  /\ orderMetrics.fillPercentage = Num(100)
  /\ orderMetrics.averageFillPrice = LimitPrice
  /\ orderMetrics.marketImpact = Mul(Div(Quantity, Walked[1].total), Num(100))

(***************************************************************************)
(* C8. Every result of a limit order that no level of the walked side      *)
(* crosses has fillPercentage = 0, averageFillPrice = 0, slippage = 0 and  *)
(* marketImpact = 0.                                                       *)
(***************************************************************************)
C8_RestingLimitUnfilled ==
  [][(SimulateStep /\ IsLimit /\ ~SomeLevelCrosses /\ orderMetrics' # null)
       => /\ orderMetrics'.fillPercentage = Num(0)
          /\ orderMetrics'.averageFillPrice = Num(0)
          /\ orderMetrics'.slippage = Num(0)
          /\ orderMetrics'.marketImpact = Num(0)]_vars

\* a limit buy at 99 against asks that start at 100: a result, all zero
C8_Witness_LimitBelowAsks ==
  /\ Book # undefined /\ IsLimit /\ orderForm.side = "buy"
  /\ LimitPrice = Num(99) /\ Positive(Quantity)
  /\ Walked # <<>> /\ WellFormed(Walked)
  /\ \A i \in 1..Len(Walked) : Ge(Walked[i].price, Num(100))
  /\ orderMetrics # null
  /\ orderMetrics.fillPercentage = Num(0)
  /\ orderMetrics.averageFillPrice = Num(0)
  /\ orderMetrics.estimatedCost = Mul(Num(99), Quantity)

(***************************************************************************)
(* C9. In every result, estimatedCost is the cost the market walk          *)
(* accumulated when that is a number other than zero, and limit price *    *)
(* quantity in every other case: limit orders, crossing or not, and market *)
(* orders whose accumulated cost is zero (or no number).                   *)
(***************************************************************************)
WalkCost == MarketWalk(Walked, WalkStart(Quantity)).totalCost

C9_EstimatedCost ==
  [][(SimulateStep /\ orderMetrics' # null)
       => orderMetrics'.estimatedCost =
            IF IsMarket /\ ~IsNaN(WalkCost) /\ WalkCost # Num(0)
            THEN WalkCost ELSE Mul(LimitPrice, Quantity)]_vars

\* a market order that fills at price 0: the cost shown is price * quantity
C9_Witness_ZeroCostFallback ==
  /\ Book # undefined /\ IsMarket /\ Positive(Quantity) /\ Positive(LimitPrice)
  /\ Walked # <<>> /\ WalkCost = Num(0)
  /\ orderMetrics # null
  /\ orderMetrics.fillPercentage = Num(100)
  /\ orderMetrics.estimatedCost = Mul(LimitPrice, Quantity)

(***************************************************************************)
(* C10. marketImpact is measured against the first level's total only:     *)
(* filled / levels[0].total * 100 for a market order that fills and        *)
(* quantity / levels[0].total * 100 for a crossing limit order, with the   *)
(* denominator 1 where levels[0].total is 0 (or no number); the            *)
(* denominator is never zero.                                              *)
(***************************************************************************)
WalkFilled == MarketWalk(Walked, WalkStart(Quantity)).filledQuantity

C10_ImpactAgainstFirstTotal ==
  [][(SimulateStep /\ orderMetrics' # null)
       => /\ (IsMarket /\ Gt(WalkFilled, Num(0)))
               => orderMetrics'.marketImpact =
                    Mul(Div(WalkFilled, FirstTotalOrOne), Num(100))
          /\ (IsLimit /\ SomeLevelCrosses)
               => orderMetrics'.marketImpact =
                    Mul(Div(Quantity, FirstTotalOrOne), Num(100))
          /\ ImpactBase(Walked) # Num(0)]_vars

\* a market order that fills on the second level, the first holding 0: the
\* impact is filled / 1 * 100
C10_Witness_ZeroFirstTotal ==
  /\ Book # undefined /\ IsMarket /\ Positive(Quantity)
  /\ Len(Walked) = 2 /\ Walked[1].total = Num(0) /\ Positive(Walked[2].size)
  /\ \A i \in 1..Len(Walked) : Positive(Walked[i].price)
  /\ orderMetrics # null
  /\ Positive(orderMetrics.fillPercentage)
  /\ orderMetrics.marketImpact = Mul(WalkFilled, Num(100))

(***************************************************************************)
(* C11. Every result of simulateOrder on a book whose sizes are all        *)
(* non-negative numbers, for any order (market or limit, buy or sell, any  *)
(* price and quantity text), has 0 <= fillPercentage <= 100.               *)
(***************************************************************************)
NonNegativeSizes(levels) == \A i \in 1..Len(levels) : NonNegative(levels[i].size)

C11_FillPercentageInRange ==
  [][(SimulateStep /\ orderMetrics' # null
        /\ NonNegativeSizes(Book.bids) /\ NonNegativeSizes(Book.asks))
       => /\ Le(Num(0), orderMetrics'.fillPercentage)
          /\ Le(orderMetrics'.fillPercentage, Num(100))]_vars

\* a market order for more than the side holds: a percentage strictly
\* between 0 and 100
C11_Witness_PartialFill ==
  /\ Book # undefined /\ IsMarket
  /\ Walked # <<>> /\ WellFormed(Walked)
  /\ Gt(Quantity, SumSizes(Walked, Len(Walked)))
  /\ orderMetrics # null
  /\ orderMetrics.fillPercentage =
       Mul(Div(SumSizes(Walked, Len(Walked)), Quantity), Num(100))
  /\ Gt(orderMetrics.fillPercentage, Num(0))
  /\ Lt(orderMetrics.fillPercentage, Num(100))

(***************************************************************************)
(* C12. A market order whose quantity q satisfies 0 < q <= size of the top *)
(* level of the walked side (here: a side of levels with positive finite   *)
(* price and size) yields a result with fillPercentage = 100,              *)
(* averageFillPrice = levels[0].price and slippage = 0.                    *)
(***************************************************************************)
FitsTopLevel ==
  /\ IsMarket /\ Positive(Quantity)
  /\ Walked # <<>> /\ WellFormed(Walked)
  /\ Le(Quantity, Walked[1].size)

C12_TopLevelFill ==
  [][(SimulateStep /\ FitsTopLevel)
       => /\ orderMetrics' # null
          /\ orderMetrics'.fillPercentage = Num(100)
          /\ orderMetrics'.averageFillPrice = Walked[1].price
          /\ orderMetrics'.slippage = Num(0)]_vars

\* the same with the price field filled in: the fill is as C12 says
C12_TopLevelFillWithPrice ==
  [][(SimulateStep /\ FitsTopLevel /\ orderForm.price # <<>>)
       => /\ orderMetrics' # null
          /\ orderMetrics'.fillPercentage = Num(100)
          /\ orderMetrics'.averageFillPrice = Walked[1].price
          /\ orderMetrics'.slippage = Num(0)]_vars

(***************************************************************************)
(* C13. The result of simulateOrder depends on the walked side only, the   *)
(* asks for a buy order and the bids for a sell order: the same order on a *)
(* book that differs in the other side alone gives the same result.        *)
(***************************************************************************)
OtherSides ==
  { <<>>,
    <<OrderLevel(Num(100), Num(10), Num(10))>>,
    <<OrderLevel(Num(101), Num(1), Num(1)), OrderLevel(Num(99), Num(20), Num(21))>>,
    <<OrderLevel(NaN, Num(10), Num(10))>> }

WithOtherSide(book, side, other) ==
  IF side = "buy" THEN [book EXCEPT !.bids = other] ELSE [book EXCEPT !.asks = other]

C13_OnlyWalkedSideCounts ==
  [][SimulateStep
       => \A other \in OtherSides :
            calculateOrderMetrics(WithOtherSide(Book, orderForm.side, other), orderForm)
              = orderMetrics']_vars

\* a result on a book whose two sides would give different results
C13_Witness_SidesDiffer ==
  /\ Book # undefined /\ Book.bids # <<>> /\ Book.asks # <<>>
  /\ orderMetrics # null
  /\ orderMetrics = calculateOrderMetrics(WithOtherSide(Book, orderForm.side, <<>>), orderForm)
  /\ orderMetrics #
       calculateOrderMetrics([Book EXCEPT !.bids = Book.asks, !.asks = Book.bids], orderForm)

(***************************************************************************)
(* C14. No stored book holds a level whose price, size or total is no      *)
(* number (NaN).                                                           *)
(***************************************************************************)
NumericLevels(levels) ==
  \A i \in 1..Len(levels) :
    ~IsNaN(levels[i].price) /\ ~IsNaN(levels[i].size) /\ ~IsNaN(levels[i].total)

C14_NoNaNLevelStored ==
  \A e \in ExchangeKey :
    orderbooks[e] # undefined =>
      NumericLevels(orderbooks[e].bids) /\ NumericLevels(orderbooks[e].asks)

(***************************************************************************)
(* C15. A message that has not the venue's snapshot shape (an ack, an      *)
(* empty data array, a snapshot without its asks) makes                    *)
(* processOrderbookData return null, and processing it leaves every stored *)
(* book and update time as it was; a stored book is never replaced by      *)
(* null.                                                                   *)
(***************************************************************************)
\* the callback of the pending timer runs
TimerStep == lastFunc.pending /\ lastFunc' = NoTimer

OtherMessagesGiveNull ==
  \A e \in ExchangeKey : \A m \in OtherMessages(e) : processOrderbookData(e, m) = null

C15_NoUpdateOnOtherMessage ==
  [][/\ OtherMessagesGiveNull
     /\ (TimerStep /\ lastFunc.data \in OtherMessages(lastFunc.exchange))
          => UNCHANGED <<orderbooks, lastUpdated>>
     /\ \A e \in ExchangeKey :
          orderbooks'[e] # orderbooks[e] => orderbooks'[e] \notin {null, undefined}]_vars

\* the timer has run after the first message, a book stored by the first
\* message is still there and nothing was stored since
C15_Witness_AckAfterBook ==
  /\ lastRan > TickMs
  /\ ~lastFunc.pending
  /\ \E e \in ExchangeKey : orderbooks[e] # undefined /\ lastUpdated[e] = TickMs
  /\ \A e \in ExchangeKey : lastUpdated[e] < lastRan

(***************************************************************************)
(* C16. A step that changes the book of a venue changes the book of that   *)
(* venue only, and the new book is processOrderbookData of one message of  *)
(* that venue (of the pending message, when the timer runs): nothing of    *)
(* the previous book is in it.                                             *)
(***************************************************************************)
C16_WholesaleReplace ==
  [][\A e \in ExchangeKey :
       orderbooks'[e] # orderbooks[e]
         => /\ \E m \in FeedSnapshots(e) : orderbooks'[e] = processOrderbookData(e, m)
            /\ \A o \in ExchangeKey \ {e} : orderbooks'[o] = orderbooks[o]
            /\ TimerStep => /\ lastFunc.exchange = e
                            /\ orderbooks'[e] = processOrderbookData(e, lastFunc.data)]_vars

\* the metrics shown are those of a market sell that met a bid at 100, and
\* no stored book has a bid any more: the book with that bid was replaced
C16_Witness_BidsGone ==
  /\ orderMetrics # null
  /\ orderMetrics.averageFillPrice = Num(100)
  /\ \E e \in ExchangeKey : orderbooks[e] # undefined
  /\ \A e \in ExchangeKey : orderbooks[e] # undefined => orderbooks[e].bids = <<>>

(***************************************************************************)
(* C17. In every reachable state the book of a venue is absent or          *)
(* complete: its bids, asks and timestamp are those of one and the same    *)
(* snapshot of that venue, and every level holds its computed total (the   *)
(* sum of the sizes down to it, never the placeholder 0 on a level of      *)
(* positive size).                                                         *)
(***************************************************************************)
\* the raw bids, asks and timestamp of a snapshot
Payload(exchange, m) ==
  CASE exchange = "okx" ->
         [bids |-> m.data[1].bids, asks |-> m.data[1].asks, ts |-> m.data[1].ts]
    [] exchange = "bybit" ->
         [bids |-> m.data.b, asks |-> m.data.a, ts |-> m.data.u]
    [] exchange = "deribit" ->
         [bids |-> m.params.data.bids, asks |-> m.params.data.asks,
          ts |-> m.params.data.timestamp]

BuiltFrom(levels, raw) ==
  /\ Len(levels) = Len(raw)
  /\ \A i \in 1..Len(levels) :
       /\ levels[i].price = parseFloat(raw[i][1])
       /\ levels[i].size = parseFloat(raw[i][2])
       /\ levels[i].total = SumSizes(levels, i)
       /\ Positive(levels[i].size) => levels[i].total # Num(0)

C17_StoredBookComplete ==
  \A e \in ExchangeKey :
    \/ orderbooks[e] = undefined
    \/ \E m \in FeedSnapshots(e) :
         /\ BuiltFrom(orderbooks[e].bids, Payload(e, m).bids)
         /\ BuiltFrom(orderbooks[e].asks, Payload(e, m).asks)
         /\ orderbooks[e].timestamp = Payload(e, m).ts

\* a venue holds the later snapshot, stored by the timer, next to a venue
\* that holds the earlier one
C17_Witness_LaterSnapshotStored ==
  \E e, o \in ExchangeKey :
    /\ orderbooks[e] # undefined /\ orderbooks[o] # undefined
    /\ orderbooks[e].timestamp = LaterTimestamp(e)
    /\ orderbooks[e].bids = <<>> /\ Len(orderbooks[e].asks) = 2
    /\ orderbooks[e].asks[2].total = Num(20)
    /\ lastUpdated[e] > TickMs
    /\ orderbooks[o].timestamp = Timestamp(o)
    /\ Len(orderbooks[o].bids) = 1 /\ Len(orderbooks[o].asks) = 1

(***************************************************************************)
(* C18. The chart of a stored book has exactly |bids| + |asks| points, no  *)
(* point has a greater price than a later one, and for a bid level and an  *)
(* ask level of the same price the chart has the bid's point before the    *)
(* ask's point.                                                            *)
(***************************************************************************)
\* the book the chart is drawn from
ChartBook == orderbooks[selectedExchange]

BidPointOf(level) == DepthChartData(level.price, level.total, Num(0))

AskPointOf(level) == DepthChartData(level.price, Num(0), level.total)

ChartCountsLevels == Len(depthChartData) = Len(ChartBook.bids) + Len(ChartBook.asks)

ChartNonDecreasing ==
  \A i, j \in 1..Len(depthChartData) :
    i < j => ~Gt(depthChartData[i].price, depthChartData[j].price)

ChartKeepsBothSides ==
  \A b \in 1..Len(ChartBook.bids) : \A a \in 1..Len(ChartBook.asks) :
    (IsFinite(ChartBook.bids[b].price) /\ ChartBook.bids[b].price = ChartBook.asks[a].price)
      => \E i, j \in 1..Len(depthChartData) :
           /\ i < j
           /\ depthChartData[i] = BidPointOf(ChartBook.bids[b])
           /\ depthChartData[j] = AskPointOf(ChartBook.asks[a])

C18_ChartOrderedUnmerged ==
  ChartBook # undefined
    => ChartCountsLevels /\ ChartNonDecreasing /\ ChartKeepsBothSides

\* the same for the books whose prices are all numbers: the chart is as C18
\* says; and the count holds for every book
NumericPrices(levels) == \A i \in 1..Len(levels) : ~IsNaN(levels[i].price)

C18_ChartOrderedNumericPrices ==
  ChartBook # undefined
    => /\ ChartCountsLevels
       /\ (NumericPrices(ChartBook.bids) /\ NumericPrices(ChartBook.asks))
            => ChartNonDecreasing /\ ChartKeepsBothSides

(***************************************************************************)
(* C19. The chart of a stored book is a rearrangement of one point per     *)
(* level: (price, total, 0) for each bid level and (price, 0, total) for   *)
(* each ask level; bids [(100,5)] and asks [(101,3)] give exactly          *)
(* (100,5,0) then (101,0,3).                                               *)
(***************************************************************************)
PointsOfLevels ==
  [i \in 1..Len(ChartBook.bids) |-> BidPointOf(ChartBook.bids[i])]
    \o [i \in 1..Len(ChartBook.asks) |-> AskPointOf(ChartBook.asks[i])]

ExampleChart ==
  generateDepthChartData(
    [bids |-> <<OrderLevel(Num(100), Num(5), Num(5))>>,
     asks |-> <<OrderLevel(Num(101), Num(3), Num(3))>>,
     timestamp |-> "1700000000"])
  = << DepthChartData(Num(100), Num(5), Num(0)), DepthChartData(Num(101), Num(0), Num(3)) >>

C19_OnePointPerLevel ==
  /\ ExampleChart
  /\ ChartBook # undefined
       => /\ Len(depthChartData) = Len(PointsOfLevels)
          /\ \E f \in [1..Len(depthChartData) -> 1..Len(depthChartData)] :
               /\ \A i, j \in 1..Len(depthChartData) : f[i] = f[j] => i = j
               /\ \A i \in 1..Len(depthChartData) : depthChartData[i] = PointsOfLevels[f[i]]

\* a bid and an ask at the same price: two neighbouring points, each with a
\* zero on the side it is not of
C19_Witness_SamePriceTwoPoints ==
  /\ ChartBook # undefined
  /\ Len(ChartBook.bids) = 2 /\ Len(ChartBook.asks) = 1
  /\ Len(depthChartData) = 3
  /\ \E i \in 1..2 :
       /\ depthChartData[i].price = depthChartData[i + 1].price
       /\ Positive(depthChartData[i].bidTotal) /\ depthChartData[i].askTotal = Num(0)
       /\ depthChartData[i + 1].bidTotal = Num(0) /\ Positive(depthChartData[i + 1].askTotal)

C21_RebuildIsIdempotent ==
  \A e \in ExchangeKey :
    orderbooks[e] # undefined => calculateTotals(orderbooks[e]) = orderbooks[e]

\* a stored side of two levels of different sizes, the second total the sum
C21_Witness_TwoSizesRebuilt ==
  \E e \in ExchangeKey :
    /\ orderbooks[e] # undefined
    /\ Len(orderbooks[e].bids) = 2
    /\ Positive(orderbooks[e].bids[1].size) /\ Positive(orderbooks[e].bids[2].size)
    /\ orderbooks[e].bids[1].size # orderbooks[e].bids[2].size
    /\ calculateTotals(orderbooks[e]).bids[2].total =
         Add(orderbooks[e].bids[1].size, orderbooks[e].bids[2].size)

(***************************************************************************)
(* C22. A pending snapshot of a venue is discarded only in favour of a     *)
(* newer message of that same venue: a message of another venue never      *)
(* takes the place of the pending one.                                     *)
(***************************************************************************)
C22_CoalescingPerVenue ==
  [][(/\ lastFunc.pending
      /\ processOrderbookData(lastFunc.exchange, lastFunc.data) # null
      /\ lastFunc'.pending)
       => lastFunc'.exchange = lastFunc.exchange]_vars

(***************************************************************************)
(* C23. The snapshots of a venue are stored in arrival order: the stored   *)
(* book of a venue is only ever replaced by the book of a snapshot that    *)
(* arrived later, and it is the book of a snapshot that has arrived.       *)
(***************************************************************************)
C23_StoredInArrivalOrder ==
  [][\A e \in ExchangeKey :
       /\ orderbooks'[e] # undefined => orderbooks'[e].timestamp \in 1..feedSeq'[e]
       /\ (orderbooks[e] # undefined /\ orderbooks'[e] # orderbooks[e])
            => orderbooks'[e].timestamp > orderbooks[e].timestamp]_vars

\* only one venue has sent; its third snapshot is stored, by the timer, the
\* second one was superseded while it was pending
C23_Witness_ThirdSnapshotStored ==
  \E e \in ExchangeKey :
    /\ \A o \in ExchangeKey \ {e} : feedSeq[o] = 0
    /\ feedSeq[e] >= 3
    /\ orderbooks[e] # undefined
    /\ orderbooks[e].timestamp = feedSeq[e]
    /\ lastUpdated[e] > TickMs

(***************************************************************************)
(* C26. Between two consecutive runs of the processing function at least   *)
(* UPDATE_THROTTLE ms elapse: the time of the last run only moves by that  *)
(* much or more, and a book is stored only when that much time has passed  *)
(* since the last run.                                                     *)
(***************************************************************************)
C26_RateLimited ==
  [][/\ (lastRan # NoTime /\ lastRan' # lastRan) => lastRan' - lastRan >= UPDATE_THROTTLE
     /\ (lastRan # NoTime /\ lastUpdated' # lastUpdated) => now - lastRan >= UPDATE_THROTTLE]_vars

\* two runs: a book stored by the first message and a book stored by the
\* timer, UPDATE_THROTTLE ms later or more
C26_Witness_TwoRunsApart ==
  \E e, o \in ExchangeKey :
    /\ orderbooks[e] # undefined /\ orderbooks[o] # undefined
    /\ lastUpdated[e] = TickMs
    /\ lastUpdated[o] >= TickMs + UPDATE_THROTTLE
    /\ lastRan = lastUpdated[o]

(***************************************************************************)
(* C24. An error or close event of a socket of venue v changes, of the     *)
(* page state, only connectionStatus[v], to 'error' or 'disconnected': the *)
(* books, the update times, the form, the metrics, the chart and the       *)
(* status of the other venues stay as they are.                            *)
(***************************************************************************)
\* a socket of the venue goes to CLOSED, or the status of the venue goes to
\* 'error' or 'disconnected'
ErrorOrCloseOf(e) ==
  \/ \E i \in DOMAIN sockets[e] :
       /\ i \in DOMAIN sockets'[e]
       /\ sockets[e][i].readyState # "CLOSED"
       /\ sockets'[e][i].readyState = "CLOSED"
  \/ /\ connectionStatus'[e] # connectionStatus[e]
     /\ connectionStatus'[e] \in {"error", "disconnected"}

C24_FailureTouchesStatusOnly ==
  [][\A e \in ExchangeKey :
       ErrorOrCloseOf(e)
         => /\ UNCHANGED <<orderbooks, lastUpdated, orderForm, orderMetrics,
                           selectedExchange, depthChartData, lastRan, lastFunc>>
            /\ connectionStatus'[e] \in {"error", "disconnected"}
            /\ \A o \in ExchangeKey \ {e} : connectionStatus'[o] = connectionStatus[o]]_vars

\* the socket of a venue has closed, the book of that venue is still there,
\* and another venue is still connected
C24_Witness_BookOutlivesSocket ==
  \E e, o \in ExchangeKey :
    /\ e # o
    /\ orderbooks[e] # undefined
    /\ sockets[e][1].readyState = "CLOSED"
    /\ connectionStatus[e] = "disconnected"
    /\ connectionStatus[o] = "connected"

(***************************************************************************)
(* C25. When a socket of a venue closes, the status of the venue becomes   *)
(* 'disconnected' and a reconnect is scheduled RECONNECT_DELAY ms later;   *)
(* the reconnect happens no earlier, sets the status to 'connecting', and  *)
(* every closed socket is eventually followed by a new connecting socket   *)
(* of that venue.                                                          *)
(***************************************************************************)
C25_CloseLeadsToReconnect ==
  /\ [][\A e \in ExchangeKey : \A i \in DOMAIN sockets[e] :
          /\ (sockets[e][i].readyState # "CLOSED" /\ sockets'[e][i].readyState = "CLOSED")
               => /\ connectionStatus'[e] = "disconnected"
                  /\ sockets'[e][i].reconnectAt = now + RECONNECT_DELAY
          /\ (sockets[e][i].readyState = "CLOSED" /\ sockets'[e][i].readyState # "CLOSED")
               => /\ sockets'[e][i].readyState = "CONNECTING"
                  /\ now >= sockets[e][i].reconnectAt
                  /\ connectionStatus'[e] = "connecting"]_vars
  /\ \A e \in ExchangeKey : \A i \in SocketIds :
       (i \in DOMAIN sockets[e] /\ sockets[e][i].readyState = "CLOSED")
         ~> (i \in DOMAIN sockets[e] /\ sockets[e][i].readyState = "CONNECTING")

\* a socket that a reconnect has opened, RECONNECT_DELAY ms after the start
\* or later
C25_Witness_Reconnected ==
  \E e \in ExchangeKey :
    /\ sockets[e][1].readyState = "CONNECTING"
    /\ ~sockets[e][1].ref
    /\ connectionStatus[e] = "connecting"
    /\ now >= TickMs + RECONNECT_DELAY

(***************************************************************************)
(* C29. While the page stays unmounted no socket starts connecting, and in *)
(* every reachable state at most one socket per venue is connecting or     *)
(* open.                                                                   *)
(***************************************************************************)
C29_NoConnectionAfterUnmount ==
  /\ [][(~mounted /\ ~mounted')
          => \A e \in ExchangeKey : \A i \in DOMAIN sockets[e] :
               sockets'[e][i].readyState = "CONNECTING"
                 => sockets[e][i].readyState = "CONNECTING"]_vars
  /\ [](\A e \in ExchangeKey :
          Cardinality({i \in DOMAIN sockets[e] :
                         sockets[e][i].readyState \in {"CONNECTING", "OPEN"}}) <= 1)

(***************************************************************************)
(* C27. In the walk of a market order, after every level that is visited   *)
(* filledQuantity + remainingQuantity = quantity, 0 <= fillQty <= size of  *)
(* that level, and remainingQuantity >= 0.                                 *)
(***************************************************************************)
\* the walk after the first k levels of the side
WalkAt(levels, quantity, k) == MarketWalk(SubSeq(levels, 1, k), WalkStart(quantity))

\* the loop reaches level k without a break
Visited(levels, quantity, k) ==
  ~Le(WalkAt(levels, quantity, k - 1).remainingQuantity, Num(0))

\* x === y of two numbers
SameNumber(x, y) == ~IsNaN(x) /\ ~IsNaN(y) /\ x = y

WalkInvariant(levels, quantity) ==
  \A k \in 1..Len(levels) :
    Visited(levels, quantity, k)
      => LET before == WalkAt(levels, quantity, k - 1)
             after == WalkAt(levels, quantity, k)
             fillQty == MathMin(before.remainingQuantity, levels[k].size)
         IN /\ SameNumber(Add(after.filledQuantity, after.remainingQuantity), quantity)
            /\ Ge(fillQty, Num(0))
            /\ Le(fillQty, levels[k].size)
            /\ Ge(after.remainingQuantity, Num(0))

C27_WalkInvariant ==
  [][(SimulateStep /\ IsMarket /\ ~RejectsOrder(Book, orderForm))
       => WalkInvariant(Walked, Quantity)]_vars

\* the same for a numeric quantity and levels of finite non-negative size
C27_WalkInvariantOnValidInput ==
  [][(/\ SimulateStep /\ IsMarket /\ ~RejectsOrder(Book, orderForm)
      /\ IsFinite(Quantity)
      /\ \A i \in 1..Len(Walked) : NonNegative(Walked[i].size))
       => WalkInvariant(Walked, Quantity)]_vars

(***************************************************************************)
(* C28. When a market order fills (filledQuantity > 0) against a side      *)
(* whose prices are finite and non-negative, 0 included, the price of the  *)
(* top level, the denominator of the slippage, is not zero and the         *)
(* slippage of the result is a finite number >= 0.                         *)
(***************************************************************************)
MarketFills ==
  /\ IsMarket /\ ~RejectsOrder(Book, orderForm)
  /\ Fills(MarketWalk(Walked, WalkStart(Quantity)))

C28_SlippageWellDefined ==
  [][(/\ SimulateStep /\ MarketFills
      /\ \A i \in 1..Len(Walked) : NonNegative(Walked[i].price))
       => /\ orderMetrics' # null
          /\ BestPrice(Walked) # Num(0)
          /\ NonNegative(orderMetrics'.slippage)]_vars

\* the same on a side of positive prices
C28_SlippageOnPositivePrices ==
  [][(/\ SimulateStep /\ MarketFills
      /\ \A i \in 1..Len(Walked) : Positive(Walked[i].price))
       => /\ orderMetrics' # null
          /\ BestPrice(Walked) # Num(0)
          /\ ~IsNaN(orderMetrics'.slippage)
          /\ Ge(orderMetrics'.slippage, Num(0))]_vars

(***************************************************************************)
(* C30. simulateOrder leaves orderMetrics as it is when no book is stored  *)
(* for the venue of the order form, and otherwise sets it to               *)
(* calculateOrderMetrics of the book of orderForm.venue and the form, null *)
(* included, whatever venue is selected for display.                       *)
(***************************************************************************)
\* a step that changes nothing but orderMetrics
SimulateOnly ==
  UNCHANGED <<orderbooks, lastUpdated, orderForm, lastRan, lastFunc, now,
              selectedExchange, depthChartData, link, feedSeq>>

\* every step that changes orderMetrics is such a step, is made with a book
\* of the form's venue, and stores the result for that book and the form
C30_AnswersCurrentRequest ==
  [][orderMetrics' # orderMetrics
       => /\ SimulateOnly
          /\ Book # undefined
          /\ orderMetrics' = calculateOrderMetrics(Book, orderForm)]_vars

\* a result for the form's venue while another venue, with another book, is
\* on display
C30_Witness_OtherVenueDisplayed ==
  /\ orderForm.venue # selectedExchange
  /\ Book # undefined
  /\ orderbooks[selectedExchange] # undefined
  /\ orderMetrics # null
  /\ orderMetrics = calculateOrderMetrics(Book, orderForm)
  /\ orderMetrics # calculateOrderMetrics(orderbooks[selectedExchange], orderForm)

====
